---- MODULE Spec2Model ----
(***************************************************************************)
(* AGBAC-Min: the signed act-assertion protocol.                           *)
(*                                                                         *)
(* The application's HybridSender wraps the human identity ("act") in a    *)
(* short-lived RS256 JWT; the agent's OutOfSessionTokenRequest verifies    *)
(* it (signature, expiry, audience, replay, act.sub) and hands the act on. *)
(* The application-side calls (extract_act_from_session, the two prepare   *)
(* methods, request_token) are studied one call at a time, and so are the  *)
(* vendor adapters (construction, token request), the protected-resource   *)
(* calls (call_api) and get_config.                                        *)
(*                                                                         *)
(* Time is the integer clock that int(time.time()) and PyJWT read.  A      *)
(* nonce produced by secrets.token_urlsafe(32) is modelled as a name that  *)
(* was never produced before (256 bits of entropy).  jwt.encode and        *)
(* jwt.decode are PyJWT 2.x (>= 2.5: a token is expired from the second    *)
(* exp on, RFC 7519 4.1.4).                                                *)
(***************************************************************************)
EXTENDS Integers, Sequences, FiniteSets, TLC

\* ------------------------------------------------------------------ bounds
MaxTime   == 2      \* the clock runs 0..MaxTime
MaxTtl    == 1      \* ttl_seconds is 0 or MaxTtl
MaxIssued == 1      \* assertions signed in one behaviour
MaxConcIssued == 2  \* ... in a behaviour with overlapping calls
MaxPairIssued == 2  \* ... in a behaviour that compares assertions

\* ------------------------------------------------------------- input sets
\* A URL string "scheme://host"; the empty string has neither part.
Url(scheme, host) == [scheme |-> scheme, host |-> host]
EmptyStr == Url("", "")
AgentUrl == Url("https", "agent.example.com")
OtherUrl == Url("https", "other.example.com")
PlainUrl == Url("http", "agent.example.com")

\* u.startswith('https://')
StartsWithHttps(u) == u.scheme = "https"

Endpoints == {AgentUrl, OtherUrl, PlainUrl, EmptyStr}
Audiences == {AgentUrl, OtherUrl}
TTLs      == {0, MaxTtl}

\* A Python dict of strings is the set of its (key, value) items.
ActAlice   == {<<"sub", "alice">>}
ActFull    == {<<"sub", "user:alice@example.com">>,
               <<"email", "alice@example.com">>, <<"name", "Alice">>}
ActNoSub   == {<<"email", "alice@example.com">>}
ActEmpty   == {}
ActMallory == {<<"sub", "mallory">>}
Acts       == {ActAlice, ActFull, ActNoSub, ActEmpty}
ActBlankSub == {<<"sub", "">>}
\* What the agents-package sender, which validates nothing, is given.
AgentsActs      == {ActAlice, ActNoSub}
AgentsEndpoints == {AgentUrl, EmptyStr}

\* Keys.  A sender is constructed with a private key or with none; the
\* verifier loads the public half of the application's key.
AppKey      == <<"priv", "app">>
OtherKey    == <<"priv", "other">>
NoKey       == <<"none", "">>
PublicOf(k) == <<"pub", k[2]>>
SenderKeys  == {AppKey, OtherKey, NoKey}

\* OutOfSessionTokenRequest instances holding the same public key.
Verifiers == {1, 2}

\* ------------------------------------------------------------- dict / JSON
HasKey(d, k) == \E it \in d : it[1] = k
Get(d, k)    == (CHOOSE it \in d : it[1] = k)[2]

\* json.dumps of a dict: its members in insertion order.
KeyOrder == <<"sub", "email", "name">>
\* (mutant: only sub and email are serialized)
JsonDumpsNoName(d) ==
    LET Present(i) == HasKey(d, KeyOrder[i])
        idx == SelectSeq(<<1, 2>>, Present)
    IN  [i \in 1..Len(idx) |-> <<KeyOrder[idx[i]], Get(d, KeyOrder[idx[i]])>>]
JsonDumps(d) ==
    LET Present(i) == HasKey(d, KeyOrder[i])
        idx == SelectSeq(<<1, 2, 3>>, Present)
    IN  [i \in 1..Len(idx) |-> <<KeyOrder[idx[i]], Get(d, KeyOrder[idx[i]])>>]

\* json.loads of an object: the dict of its members.
JsonLoads(s) == {s[i] : i \in 1..Len(s)}

\* ------------------------------------------------------------------ tokens
\* secrets.token_urlsafe(32): the n-th nonce drawn.
NoJti  == <<>>
\* (mutant: every call draws the same nonce)
JtiReused(n) == <<"jti", 0>>
Jti(n) == <<"jti", n>>

NoPayload ==
    [has |-> {}, iss |-> "", sub |-> "", aud |-> EmptyStr, exp |-> 0,
     iat |-> 0, jti |-> NoJti, act |-> <<>>]
NoSig   == [key |-> NoKey, alg |-> "none", payload |-> NoPayload]
NoToken == [alg |-> "none", payload |-> NoPayload, sig |-> NoSig]

\* jwt.encode(payload, key, algorithm='RS256'): the signature covers the
\* header and the payload.
JwtEncode(payload, key) ==
    [alg |-> "RS256", payload |-> payload,
     sig |-> [key |-> key, alg |-> "RS256", payload |-> payload]]

\* The payload HybridSender.prepare_out_of_session_act signs.
SenderPayload(act, agent_endpoint, ttl_seconds, t, jti) ==
    [has |-> {"iss", "sub", "aud", "exp", "iat", "jti", "act"},
     iss |-> "application", sub |-> "application", aud |-> agent_endpoint,
     exp |-> t + ttl_seconds, iat |-> t, jti |-> jti, act |-> JsonDumps(act)]

\* (mutant: the act is validated before the key is looked at)
PrepareResultClaimFirst(key, act, agent_endpoint) ==
    IF act = {} \/ ~HasKey(act, "sub") THEN "InvalidClaim"
    ELSE IF key = NoKey THEN "SigningKeyMissing"
    ELSE IF agent_endpoint = EmptyStr \/ ~StartsWithHttps(agent_endpoint)
         THEN "InvalidAssertionRequest"
    ELSE "OK"
\* HybridSender.prepare_out_of_session_act: the error it raises, or "OK".
PrepareResult(key, act, agent_endpoint) ==
    IF key = NoKey THEN "SigningKeyMissing"
    ELSE IF act = {} \/ ~HasKey(act, "sub") THEN "InvalidClaim"
    ELSE IF agent_endpoint = EmptyStr \/ ~StartsWithHttps(agent_endpoint)
         THEN "InvalidAssertionRequest"
    ELSE "OK"

\* The payload the agents-package HybridSender signs: no iss, sub or jti.
AgentsSenderPayload(human_identity, agent_endpoint, ttl_seconds, t) ==
    [NoPayload EXCEPT !.has = {"act", "iat", "exp", "aud"},
                      !.aud = agent_endpoint, !.exp = t + ttl_seconds,
                      !.iat = t, !.act = JsonDumps(human_identity)]

\* ---------------------------------------------------------------- verifier
\* (mutant: no algorithm allow-list)
AnyAlgorithm == {"RS256", "HS256", "none"}
\* algorithms=['RS256']
PinnedAlgorithms == {"RS256"}

\* (mutant: the signature is checked against the key that made it)
SignatureVerifiesAnyKey(tok, pub) ==
    /\ tok.sig.alg = tok.alg
    /\ tok.sig.payload = tok.payload

\* The signature check PyJWT makes for the header's algorithm: RS256 with
\* the public key `pub`; HS256 with `pub` taken as the shared secret.
SignatureVerifies(tok, pub) ==
    /\ tok.sig.alg = tok.alg
    /\ tok.sig.payload = tok.payload
    /\ CASE tok.alg = "RS256" -> tok.sig.key[1] = "priv" /\ PublicOf(tok.sig.key) = pub
         [] tok.alg = "HS256" -> tok.sig.key = pub
         [] OTHER -> FALSE

\* (mutant: a token is still good in the second exp)
JwtExpiredAfter(exp, t) == exp < t
\* exp <= now: the token is expired from the second exp on.
JwtExpired(exp, t) == exp <= t

\* (mutant: exp and aud are read before the signature is checked)
JwtDecodeClaimsFirst(tok, pub, expected_audience, t) ==
    LET p == tok.payload IN
    IF tok.alg \notin PinnedAlgorithms THEN "InvalidToken"
    ELSE IF "exp" \in p.has /\ JwtExpired(p.exp, t) THEN "Expired"
    ELSE IF "aud" \notin p.has \/ p.aud = EmptyStr THEN "InvalidToken"
    ELSE IF p.aud # expected_audience THEN "AudienceMismatch"
    ELSE IF ~SignatureVerifies(tok, pub) THEN "SignatureInvalid"
    ELSE "OK"

\* (mutant: jwt.decode is called without audience=)
JwtDecodeNoAudience(tok, pub, expected_audience, t) ==
    LET p == tok.payload IN
    IF tok.alg \notin PinnedAlgorithms THEN "InvalidToken"
    ELSE IF ~SignatureVerifies(tok, pub) THEN "SignatureInvalid"
    ELSE IF "exp" \in p.has /\ JwtExpired(p.exp, t) THEN "Expired"
    ELSE "OK"

\* jwt.decode(act_jwt, key, algorithms=['RS256'], audience=expected_audience,
\* options={'verify_exp': True}) and the except clauses that translate its
\* exceptions: "OK", or the error receive_and_verify_act_jwt raises.
\* Order: header algorithm, signature, iat, exp, aud.
JwtDecode(tok, pub, expected_audience, t) ==
    LET p == tok.payload IN
    IF tok.alg \notin PinnedAlgorithms THEN "InvalidToken"
    ELSE IF ~SignatureVerifies(tok, pub) THEN "SignatureInvalid"
    ELSE IF "iat" \in p.has /\ p.iat > t THEN "InvalidToken"
    ELSE IF "exp" \in p.has /\ JwtExpired(p.exp, t) THEN "Expired"
    ELSE IF "aud" \notin p.has \/ p.aud = EmptyStr THEN "InvalidToken"
    ELSE IF p.aud # expected_audience THEN "AudienceMismatch"
    ELSE "OK"

\* (mutant: the nonce is recorded without the `if jti:` test)
JtiAlways(p) == TRUE
\* jti = decoded.get('jti'); if jti: ...
JtiTruthy(p) == "jti" \in p.has /\ p.jti # NoJti

\* (mutant: the replay set is never consulted)
ReplayNeverDetected(p, used) == FALSE
\* if jti in self._used_jtis: raise ValueError("Act JWT replay detected")
ReplayDetected(p, used) == JtiTruthy(p) /\ p.jti \in used

\* (mutant: the nonce is never recorded)
ConsumeNothing(p, used) == used
\* (mutant: recording a nonce drops the nonces recorded before)
ConsumeForgetsOthers(p, used) == IF JtiTruthy(p) THEN {p.jti} ELSE used
\* self._used_jtis.add(jti)
Consume(p, used) == IF JtiTruthy(p) THEN used \cup {p.jti} ELSE used

\* (mutant: the act is returned unexamined)
ActNeverMalformed(p) == FALSE
\* act = decoded.get('act'); if not act or 'sub' not in act: raise
ActMalformed(p) ==
    \/ "act" \notin p.has
    \/ JsonLoads(p.act) = {}
    \/ ~HasKey(JsonLoads(p.act), "sub")

\* How often a call evaluates `jti in self._used_jtis`: once, after jwt.decode
\* has returned and under `if jti:`.
\* (mutant: the set is consulted before jwt.decode is called)
ReplayLookupsBeforeDecode(tok, pub, expected_audience, t) ==
    IF JtiTruthy(tok.payload) THEN 1 ELSE 0
ReplayLookups(tok, pub, expected_audience, t) ==
    IF JwtDecode(tok, pub, expected_audience, t) = "OK" /\ JtiTruthy(tok.payload)
    THEN 1 ELSE 0

\* (mutant: the act is extracted before the replay set is consulted)
VerifyResultActFirst(tok, pub, expected_audience, t, used) ==
    LET d == JwtDecode(tok, pub, expected_audience, t) IN
    IF d # "OK" THEN d
    ELSE IF ActMalformed(tok.payload) THEN "MalformedClaim"
    ELSE IF ReplayDetected(tok.payload, used) THEN "ReplayDetected"
    ELSE "OK"
\* receive_and_verify_act_jwt run to completion: the error raised or "OK".
VerifyResult(tok, pub, expected_audience, t, used) ==
    LET d == JwtDecode(tok, pub, expected_audience, t) IN
    IF d # "OK" THEN d
    ELSE IF ReplayDetected(tok.payload, used) THEN "ReplayDetected"
    ELSE IF ActMalformed(tok.payload) THEN "MalformedClaim"
    ELSE "OK"

\* (mutant: the nonce is recorded once the signature has been checked)
VerifyUsedAfterSignature(tok, pub, expected_audience, t, used) ==
    IF /\ tok.alg \in PinnedAlgorithms
       /\ SignatureVerifies(tok, pub)
       /\ ~ReplayDetected(tok.payload, used)
    THEN Consume(tok.payload, used)
    ELSE used
\* (mutant: the nonce is recorded only when the act is returned)
VerifyUsedOnSuccess(tok, pub, expected_audience, t, used) ==
    IF VerifyResult(tok, pub, expected_audience, t, used) = "OK"
    THEN Consume(tok.payload, used)
    ELSE used
\* ... and the replay set it leaves behind.
VerifyUsed(tok, pub, expected_audience, t, used) ==
    IF /\ JwtDecode(tok, pub, expected_audience, t) = "OK"
       /\ ~ReplayDetected(tok.payload, used)
    THEN Consume(tok.payload, used)
    ELSE used

\* ... and the act it returns (the empty dict when it raises).
VerifyAct(tok, pub, expected_audience, t, used) ==
    IF VerifyResult(tok, pub, expected_audience, t, used) = "OK"
    THEN JsonLoads(tok.payload.act)
    ELSE {}

\* ------------------------------------------------- strings an agent is sent
\* What a party without the application's private key can make of a signed
\* assertion: the payload edited under the old signature, the header set to
\* "none", or the token re-signed with HS256 keyed with the public key.
SwapAud(u) == IF u = AgentUrl THEN OtherUrl ELSE AgentUrl
PayloadEdits(p) ==
    { [p EXCEPT !.exp = MaxTime + MaxTtl + 1],
      [p EXCEPT !.aud = SwapAud(p.aud)],
      [p EXCEPT !.act = JsonDumps(ActMallory)],
      [p EXCEPT !.has = @ \ {"jti"}, !.jti = NoJti] } \ {p}
Forged(tok) ==
    LET p == tok.payload IN
       { [tok EXCEPT !.payload = q] : q \in PayloadEdits(p) }
    \cup { [alg |-> "none", payload |-> p,
            sig |-> [key |-> NoKey, alg |-> "none", payload |-> p]],
           [alg |-> "HS256", payload |-> p,
            sig |-> [key |-> PublicOf(AppKey), alg |-> "HS256", payload |-> p]] }

\* ------------------------------------------------ application-side calls
\* Python's None, and the truth value of an optional string.
None == "<None>"
Truthy(v) == v \notin {None, ""}

\* dict.get(k): the value, or None.
GetOrNone(d, k) == IF HasKey(d, k) THEN Get(d, k) ELSE None

\* d.get(k1) or d.get(k2) or ... : the first truthy operand, else the last.
\* (mutant: the operands are read from the last key to the first)
OrChainReversed(d, keys) ==
    LET hits == {i \in 1..Len(keys) : Truthy(GetOrNone(d, keys[i]))} IN
    IF hits = {} THEN GetOrNone(d, keys[1])
    ELSE GetOrNone(d, keys[CHOOSE i \in hits : \A j \in hits : j <= i])
OrChain(d, keys) ==
    LET hits == {i \in 1..Len(keys) : Truthy(GetOrNone(d, keys[i]))} IN
    IF hits = {} THEN GetOrNone(d, keys[Len(keys)])
    ELSE GetOrNone(d, keys[CHOOSE i \in hits : \A j \in hits : i <= j])

\* The session fields extract_act_from_session reads, in reading order.
EmailKeys == <<"email", "user_email", "userPrincipalName", "mail">>
SubKeys   == <<"sub", "user_id", "oid">>
NameKeys  == <<"name", "display_name", "displayName">>
SessionKeys ==
    {EmailKeys[i] : i \in 1..Len(EmailKeys)} \cup
    {SubKeys[i] : i \in 1..Len(SubKeys)} \cup
    {NameKeys[i] : i \in 1..Len(NameKeys)}

\* A session holds, under each key, no entry, the empty string or a value
\* that names the key it is stored under.
SessionValue ==
    [email |-> "alice@example.com", user_email |-> "alice@users.example.com",
     userPrincipalName |-> "alice@corp.example.com",
     mail |-> "alice@mail.example.com",
     sub |-> "user-1", user_id |-> "uid-1", oid |-> "oid-1",
     name |-> "Alice", display_name |-> "Alice A.", displayName |-> "A. Alice"]
SessionOptions(k) ==
    IF k \in {"email", "user_email", "mail", "sub", "name"}
    THEN {"absent", "empty", "value"}
    ELSE {"absent", "value"}
SessionOf(f) ==
    {<<k, IF f[k] = "empty" THEN "" ELSE SessionValue[k]>> :
        k \in {x \in SessionKeys : f[x] # "absent"}}
Sessions ==
    {SessionOf(f) : f \in {g \in [SessionKeys -> {"absent", "empty", "value"}] :
                              \A k \in SessionKeys : g[k] \in SessionOptions(k)}}

\* HybridSender.extract_act_from_session: the error raised, or "OK" ...
ExtractEmail(session) == OrChain(session, EmailKeys)
ExtractMessage(session) ==
    IF session = {} THEN "Session must be a dictionary"
    ELSE IF ~Truthy(ExtractEmail(session)) THEN "Session must contain email"
    ELSE ""
ExtractResult(session) ==
    IF ExtractMessage(session) = "" THEN "OK" ELSE "MissingIdentity"

\* ... and the act returned (the empty dict when it raises).
ExtractAct(session) ==
    LET email == ExtractEmail(session)
        s     == OrChain(session, SubKeys)
        sub   == IF Truthy(s) THEN s ELSE email
        name  == OrChain(session, NameKeys)
    IN  IF ExtractResult(session) # "OK" THEN {}
        ELSE {<<"sub", sub>>, <<"email", email>>} \cup
             (IF Truthy(name) THEN {<<"name", name>>} ELSE {})

\* HybridSender.prepare_in_session_act (both senders): `return act`.
\* (mutant: only the sub is handed on)
PrepareInSessionActSubOnly(act) == {it \in act : it[1] = "sub"}
PrepareInSessionAct(act) == act

\* The input test of InSessionTokenRequest.request_token and of
\* OutOfSessionTokenRequest.request_token:
\* not agent_id or not act or 'sub' not in act or not scope.
InvalidInputs(agent_id, act, scope) ==
    \/ agent_id = ""
    \/ act = {}
    \/ ~HasKey(act, "sub")
    \/ scope = <<>>

\* What adapter.request_token does when invoked: it returns a TokenResponse,
\* raises TokenRequestError, raises the ValueError of its own act validation,
\* or raises another exception.
AdapterOutcomes == {"OK", "TokenRequestError", "ValueError", "Exception"}

\* BaseAdapter._validate_act(act): ValueError for an empty act, an act
\* without 'sub', and an act whose 'sub' is empty.
ValidateAct(act) ==
    IF act = {} THEN "ValueError"
    ELSE IF ~HasKey(act, "sub") THEN "ValueError"
    ELSE IF ~Truthy(Get(act, "sub")) THEN "ValueError"
    ELSE "OK"

\* The outcomes a concrete adapter can have for `act`: the ValueError is
\* the one _validate_act raises, so it needs an act that fails it; the
\* provider can answer or fail whatever the act.
AdapterOutcomesFor(act) ==
    {o \in AdapterOutcomes : o = "ValueError" => ValidateAct(act) = "ValueError"}

\* Why a request_token call failed: the caller's input, or the provider.
Cause(outcome) ==
    CASE outcome = "ValueError" -> "input"
      [] outcome = "OK"         -> "none"
      [] OTHER                  -> "provider"

\* except TokenRequestError: raise / except Exception: raise TokenRequestError
RequestTokenResult(outcome) == IF outcome = "OK" THEN "OK" ELSE "TokenRequestError"

\* TokenResponse(access_token, token_type, expires_in, scope, act_assertion):
\* what an adapter returns; act_assertion is None unless the provider is
\* the hybrid one.
TokenResponse(access_token, act_assertion) ==
    [access_token |-> access_token, token_type |-> "Bearer", scope |-> "read",
     act_assertion |-> act_assertion]
NoTokenResponse ==
    [access_token |-> "", token_type |-> "", scope |-> "",
     act_assertion |-> None]

\* TokenResponse.__repr__: the type and scope, the access token masked, the
\* assertion masked when there is one.
TokenResponseRepr(token_response) ==
    [token_type |-> token_response.token_type, scope |-> token_response.scope,
     access_token |-> "***REDACTED***",
     act_assertion |-> IF Truthy(token_response.act_assertion)
                       THEN "***REDACTED***" ELSE None]

\* ------------------------------------------------------------- log records
\* A log record: its message, the sanitized identifier passed in `extra`
\* and the dict formatted into the message text, if any.
NoHash == <<"none", "">>
LogRecord(message, sub_hash, formatted) ==
    [message |-> message, sub_hash |-> sub_hash, formatted |-> formatted]

\* HybridSender._sanitize_identifier(identifier): "unknown", or a prefix and
\* the first 12 hex digits of the identifier's SHA-256.
SanitizeIdentifier(identifier) ==
    IF ~Truthy(identifier) THEN <<"unknown", "">>
    ELSE <<"sha256", identifier>>

\* What HybridSender.prepare_in_session_act(act) logs.
SenderLog(act) ==
    {LogRecord("Act prepared for in-session",
               SanitizeIdentifier(IF HasKey(act, "sub") THEN Get(act, "sub")
                                  ELSE ""), {})}

\* What the agents-package HybridSender.prepare_in_session_act logs:
\* f"Preparing in-session 'act' data: {human_identity}"
AgentsSenderLog(human_identity) ==
    {LogRecord("Preparing in-session 'act' data: {human_identity}", NoHash,
               human_identity)}

\* ------------------------------------------------------------ HTTP requests
\* A request handed to the HTTP library: headers and body are dicts, given
\* as the set of keys present (`has`) and the value under each key.
NoHeaders ==
    [has |-> {}, authorization |-> <<"", "">>, x_act_assertion |-> None,
     content_type |-> ""]
NoBody ==
    [has |-> {}, grant_type |-> "", client_id |-> "", client_secret |-> "",
     scope |-> <<>>, sub |-> "", act |-> {}, audience |-> ""]
Request(to, method, url, headers, body) ==
    [to |-> to, method |-> method, url |-> url, headers |-> headers,
     body |-> body]

\* The requests HybridSender.prepare_out_of_session_act makes: none, the
\* assertion is signed and returned.
\* (mutant: the signed assertion is posted to the agent endpoint)
PrepareSendsJwt(act_jwt, agent_endpoint) ==
    <<Request("agent", "POST", agent_endpoint,
              [NoHeaders EXCEPT !.has = {"Authorization"},
                                !.authorization = <<"Bearer", "act_jwt">>], NoBody)>>
PrepareSends(act_jwt, agent_endpoint) == <<>>

\* --------------------------------------------------------- vendor adapters
\* What the provider (or the protected resource) answers to the successive
\* attempts of one call: an HTTP status, or no response at all.
NoResponse == 0
Ok == 200
Unauthorized == 401
ServiceUnavailable == 503
RetryTotal == 3
status_forcelist == {429, 500, 502, 503, 504}
Statuses == {Ok, Unauthorized, ServiceUnavailable, NoResponse}
StatusSeqs == [1..(1 + RetryTotal) -> Statuses]

IdpUrl      == Url("https", "idp.example.com")
IdpPlainUrl == Url("http", "idp.example.com")
TokenUrls   == {IdpUrl, IdpPlainUrl, EmptyStr}

\* The configuration an adapter is constructed from: the keys present and
\* the token endpoint; an absent value reaches a constructor that takes
\* positional arguments as the empty string.
RequiredFields == {"token_url", "client_id", "client_secret"}
Config(has, token_url) ==
    [has |-> has, token_url |-> token_url, client_id |-> "finance-agent",
     client_secret |-> "s3cret"]
Configs == {Config(h, u) : h \in SUBSET RequiredFields, u \in TokenUrls}
ConfigValue(config, field) ==
    IF field \in config.has THEN config[field]
    ELSE IF field = "token_url" THEN EmptyStr ELSE ""

\* code/python BaseAdapter and the agents-package adapters.
Variants       == {"base", "okta", "auth0", "entraid"}
AgentsVariants == {"okta", "auth0", "entraid"}

\* BaseAdapter.__init__(config): required keys, then the HTTPS test; both
\* raise ValueError, which stands for the specification's ConfigurationError.
BaseInitResult(config) ==
    IF RequiredFields \ config.has # {} THEN "ConfigurationError"
    ELSE IF ~StartsWithHttps(config.token_url) THEN "ConfigurationError"
    ELSE "OK"

\* OktaAdapter / EntraIDAdapter / Auth0Adapter.__init__: the arguments are
\* stored; Auth0Adapter builds f"https://{domain}/oauth/token".
InitResult(variant, config) ==
    IF variant = "base" THEN BaseInitResult(config) ELSE "OK"
Constructed(variant, config) ==
    [variant |-> variant,
     token_url |-> IF variant = "auth0"
                   THEN Url("https", ConfigValue(config, "token_url").host)
                   ELSE ConfigValue(config, "token_url"),
     client_id |-> ConfigValue(config, "client_id"),
     client_secret |-> ConfigValue(config, "client_secret")]

\* " ".join(scope): the string is given by the sequence of its words.
JoinScope(scope) == scope

\* requests form-encodes a dict value (data=payload) as one pair per key of
\* the dict: a nested act becomes act=<key>&act=<key>, its values are lost,
\* and an empty dict contributes nothing.
FormEncodeAct(act) == {<<"act", it[1]>> : it \in act}

\* The payload of request_token(sub, act, scope), per adapter.
Payload(a, sub, act, scope) ==
    [NoBody EXCEPT
       !.has = {"grant_type", "scope", "client_id", "client_secret", "sub"}
               \cup (IF a.variant = "auth0" THEN {"audience"} ELSE {})
               \cup (IF a.variant = "entraid" /\ act = {} THEN {} ELSE {"act"}),
       !.grant_type = "client_credentials",
       !.scope = JoinScope(scope),
       !.client_id = a.client_id,
       !.client_secret = a.client_secret,
       !.sub = sub,
       !.act = IF a.variant = "entraid" THEN FormEncodeAct(act) ELSE act,
       !.audience = IF a.variant = "auth0" THEN "https://api.example.com/"
                    ELSE ""]

\* requests.post(self.token_url, ...) outside any Session with a Retry: the
\* request is sent once, whatever the provider answers; an empty URL is
\* refused by the HTTP library (MissingSchema) and nothing is sent.
\* (mutant: a transient answer is retried as call_api's session does)
TokenAttemptsRetrying(a, statuses) ==
    LET final == {i \in 1..Len(statuses) :
                     statuses[i] \notin status_forcelist \cup {NoResponse}}
    IN  IF a.token_url = EmptyStr THEN 0
        ELSE IF final = {} THEN Len(statuses)
        ELSE CHOOSE i \in final : \A j \in final : i <= j
TokenAttempts(a, statuses) == IF a.token_url = EmptyStr THEN 0 ELSE 1

\* response.raise_for_status() / a failed connection, as the caller of
\* request_token sees it: `except requests.HTTPError: raise` and
\* `except Exception: raise` re-raise what the HTTP library raised.
AdapterResult(a, status) ==
    IF a.token_url = EmptyStr THEN "MissingSchema"
    ELSE IF status = NoResponse THEN "ConnectionError"
    ELSE IF status >= 400 THEN "HTTPError"
    ELSE "OK"

\* ------------------------------------------------- protected-resource calls
ApiUrl      == Url("https", "api.example.com")
ApiPlainUrl == Url("http", "api.example.com")
ApiUrls     == {ApiUrl, ApiPlainUrl, EmptyStr}
TokenResponses ==
    {TokenResponse(t, a) : t \in {"tok-A", "tok-B"},
                           a \in {None, "", "assertion-1"}}

\* InSessionAPICall._prepare_headers(token_response)
\* (mutant: X-Act-Assertion is set whenever the attribute is not None)
InSessionPrepareHeadersNotNone(token_response) ==
    [NoHeaders EXCEPT
       !.has = {"Authorization"} \cup
               (IF token_response.act_assertion # None
                THEN {"X-Act-Assertion"} ELSE {}),
       !.authorization = <<"Bearer", token_response.access_token>>,
       !.x_act_assertion = token_response.act_assertion]
InSessionPrepareHeaders(token_response) ==
    [NoHeaders EXCEPT
       !.has = {"Authorization"} \cup
               (IF Truthy(token_response.act_assertion)
                THEN {"X-Act-Assertion"} ELSE {}),
       !.authorization = <<"Bearer", token_response.access_token>>,
       !.x_act_assertion = IF Truthy(token_response.act_assertion)
                           THEN token_response.act_assertion ELSE None]

\* OutOfSessionAPICall._prepare_headers(token_response)
OutOfSessionPrepareHeaders(token_response) ==
    LET headers == [NoHeaders EXCEPT
                      !.has = {"Authorization"},
                      !.authorization =
                          <<"Bearer", token_response.access_token>>]
    IN  IF Truthy(token_response.act_assertion)
        THEN [headers EXCEPT !.has = @ \cup {"X-Act-Assertion"},
                             !.x_act_assertion = token_response.act_assertion]
        ELSE headers

PrepareHeaders(class, token_response) ==
    IF class = "InSessionAPICall" THEN InSessionPrepareHeaders(token_response)
    ELSE OutOfSessionPrepareHeaders(token_response)

\* if json_data: headers['Content-Type'] = 'application/json'
CallHeaders(class, token_response, json_data) ==
    LET headers == PrepareHeaders(class, token_response) IN
    IF json_data
    THEN [headers EXCEPT !.has = @ \cup {"Content-Type"},
                         !.content_type = "application/json"]
    ELSE headers

\* if not api_url.startswith('https://'): raise ValueError, the first
\* statement of call_api.
\* (mutant: the URL is not looked at)
ApiUrlRejectedNever(api_url) == FALSE
ApiUrlRejected(api_url) == ~StartsWithHttps(api_url)

\* The session's HTTPAdapter carries Retry(total=3, status_forcelist=...):
\* an attempt that gets no response, or a status of the forcelist, is
\* followed by another one until 1 + total attempts have been made.
Retried(status) == status \in status_forcelist \cup {NoResponse}
ApiAttempts(statuses) ==
    LET final == {i \in 1..(1 + RetryTotal) : ~Retried(statuses[i])} IN
    IF final = {} THEN 1 + RetryTotal
    ELSE CHOOSE i \in final : \A j \in final : i <= j

\* What call_api returns or raises after its last attempt: the response
\* (whatever its status, raise_for_status is not called), RetryError when
\* the retries are used up on a forcelist status, ConnectionError when no
\* response came.
ApiResult(statuses) ==
    LET st == statuses[ApiAttempts(statuses)] IN
    IF st = NoResponse THEN "ConnectionError"
    ELSE IF st \in status_forcelist THEN "RetryError"
    ELSE "OK"

\* ------------------------------------------------------------ configuration
\* get_config reads os.environ.  A text value is the sequence of its
\* characters; a token URL is given by what precedes "://" and by the host
\* and port parts of what urlparse calls its netloc; the whole string is
\* empty when all three are.
Unset   == "<unset>"
NotAStr == "<int>"
CfgUrl(scheme, host, port) == [scheme |-> scheme, host |-> host, port |-> port]
EmptyCfgUrl == CfgUrl("", "", "")
CfgUrls ==
    {EmptyCfgUrl,
     CfgUrl("https", "idp.example.com", ""),
     CfgUrl("http", "idp.example.com", ""),
     CfgUrl("", "idp.example.com", ""),
     CfgUrl("https", "", ""),
     CfgUrl("https", "", "443"),
     CfgUrl("https", "[::1", "")}

\* str.strip()
RECURSIVE Strip(_)
Strip(s) ==
    IF s = <<>> THEN s
    ELSE IF Head(s) = " " THEN Strip(Tail(s))
    ELSE IF s[Len(s)] = " " THEN Strip(SubSeq(s, 1, Len(s) - 1))
    ELSE s

\* vendor.lower().strip(), on the vendor names below
LowerStrip(v) == IF v = "Okta " THEN "okta" ELSE v

valid_vendors == {"keycloak", "auth0", "okta", "entraid"}
VendorArgs ==
    valid_vendors \cup {None, NotAStr, "", "Okta ", "oidc"}

\* The files APP_PRIVATE_KEY_PATH may name: one exists and is readable.
KeyPath     == <<"k", "e", "y">>
MissingPath == <<"n", "o">>
FileReadable(file_path) == file_path = KeyPath

NoEnv ==
    [AGBAC_VENDOR |-> Unset, AGENT_CLIENT_ID |-> <<>>,
     AGENT_CLIENT_SECRET |-> <<>>, TOKEN_URL |-> EmptyCfgUrl,
     API_AUDIENCE |-> <<>>, API_SCOPE |-> <<>>,
     APP_PRIVATE_KEY_PATH |-> <<>>, APP_ID |-> <<>>]
\* TOKEN_URL stands for the selected vendor's *_TOKEN_URL variable.
Envs ==
    [AGBAC_VENDOR : {Unset, "", "entraid"},
     AGENT_CLIENT_ID : {<<>>, <<" ">>, <<"i", "d">>, <<"a", "p", "p", " ">>},
     AGENT_CLIENT_SECRET : {<<>>, <<" ">>, <<"s", "e", "c">>},
     TOKEN_URL : CfgUrls,
     API_AUDIENCE : {<<>>, <<"a", "p">>, <<"a", "p", "i">>},
     API_SCOPE : {<<>>, <<"a", "p", "i">>},
     APP_PRIVATE_KEY_PATH : {<<>>, MissingPath, KeyPath},
     APP_ID : {<<>>, <<"a", "p">>, <<"a", "p", "p">>}]

\* The dict get_config returns: the keys present, those whose value is
\* None, and the values.
NoConfig ==
    [has |-> {}, none |-> {}, token_url |-> EmptyCfgUrl, client_id |-> <<>>,
     client_secret |-> <<>>, audience |-> <<>>, scope |-> <<>>,
     app_private_key_path |-> <<>>, app_id |-> <<>>, act_audience |-> <<>>]
ConfigOk(config) == [result |-> "OK", message |-> "", config |-> config]
ConfigFails(message) ==
    [result |-> "ConfigurationError", message |-> message, config |-> NoConfig]

\* _get_keycloak_config / _get_auth0_config / _get_okta_config /
\* _get_entraid_config
VendorConfig(vendor, client_id, client_secret, env) ==
    LET token_url == env.TOKEN_URL
        audience  == Strip(env.API_AUDIENCE)
        scope     == Strip(env.API_SCOPE)
        path      == Strip(env.APP_PRIVATE_KEY_PATH)
        app_id    == Strip(env.APP_ID)
        base      == [NoConfig EXCEPT
                        !.has = {"token_url", "client_id", "client_secret"},
                        !.token_url = token_url, !.client_id = client_id,
                        !.client_secret = client_secret]
    IN  IF token_url = EmptyCfgUrl THEN ConfigFails("TOKEN_URL is required")
        ELSE IF vendor = "keycloak"
        THEN ConfigOk([base EXCEPT !.has = @ \cup {"audience"},
                                   !.none = {"audience"}])
        ELSE IF vendor \in {"auth0", "okta"}
        THEN IF audience = <<>> THEN ConfigFails("API_AUDIENCE is required")
             ELSE IF Len(audience) < 3
             THEN ConfigFails("API_AUDIENCE appears invalid")
             ELSE ConfigOk([base EXCEPT !.has = @ \cup {"audience"},
                                        !.audience = audience])
        ELSE IF scope = <<>> THEN ConfigFails("API_SCOPE is required")
        ELSE IF path = <<>>
        THEN ConfigFails("APP_PRIVATE_KEY_PATH is required")
        ELSE IF app_id = <<>> THEN ConfigFails("APP_ID is required")
        ELSE IF audience = <<>> THEN ConfigFails("API_AUDIENCE is required")
        ELSE IF ~FileReadable(path)
        THEN ConfigFails("APP_PRIVATE_KEY_PATH file does not exist")
        ELSE IF Len(app_id) < 3 THEN ConfigFails("APP_ID appears invalid")
        ELSE IF Len(audience) < 3
        THEN ConfigFails("API_AUDIENCE appears invalid")
        ELSE ConfigOk([base EXCEPT
                         !.has = @ \cup {"scope", "app_private_key_path",
                                         "app_id", "act_audience"},
                         !.scope = scope, !.app_private_key_path = path,
                         !.app_id = app_id, !.act_audience = audience])

\* (mutant: the loader does not look at the scheme)
ValidateHttpsUrlAnyScheme(url) ==
    IF url = EmptyCfgUrl THEN "token_url cannot be empty"
    ELSE ""
\* _validate_https_url(url, field_name)
ValidateHttpsUrl(url) ==
    IF url = EmptyCfgUrl THEN "token_url cannot be empty"
    ELSE IF ~StartsWithHttps(url) THEN "token_url must use HTTPS"
    ELSE ""

\* _validate_url_format(url, field_name): urlparse raises ValueError on an
\* unclosed "[", parsed.scheme and parsed.netloc are tested; whatever is
\* raised inside is re-raised as ConfigurationError.
Netloc(url) == <<url.host, url.port>>
ValidateUrlFormat(url) ==
    IF url.host = "[::1" THEN "token_url has invalid URL format"
    ELSE IF url.scheme = "" THEN "token_url has invalid URL format"
    ELSE IF Netloc(url) = <<"", "">> THEN "token_url has invalid URL format"
    ELSE ""

\* get_config(vendor)
GetConfig(vendor_arg, env) ==
    LET vendor == IF vendor_arg = None
                  THEN LowerStrip(IF env.AGBAC_VENDOR = Unset THEN "keycloak"
                                  ELSE env.AGBAC_VENDOR)
                  ELSE LowerStrip(vendor_arg)
        client_id     == Strip(env.AGENT_CLIENT_ID)
        client_secret == Strip(env.AGENT_CLIENT_SECRET)
        loaded == VendorConfig(vendor, client_id, client_secret, env)
    IN  IF vendor_arg = NotAStr
        THEN ConfigFails("Vendor parameter must be a string")
        ELSE IF vendor = "" THEN ConfigFails("Vendor cannot be empty")
        ELSE IF vendor \notin valid_vendors THEN ConfigFails("Invalid vendor")
        ELSE IF client_id = <<>> THEN ConfigFails("AGENT_CLIENT_ID is required")
        ELSE IF client_secret = <<>>
        THEN ConfigFails("AGENT_CLIENT_SECRET is required")
        ELSE IF Len(client_id) < 3
        THEN ConfigFails("AGENT_CLIENT_ID appears invalid")
        ELSE IF loaded.result # "OK" THEN loaded
        ELSE IF ValidateHttpsUrl(loaded.config.token_url) # ""
        THEN ConfigFails(ValidateHttpsUrl(loaded.config.token_url))
        ELSE IF ValidateUrlFormat(loaded.config.token_url) # ""
        THEN ConfigFails(ValidateUrlFormat(loaded.config.token_url))
        ELSE loaded

\* ------------------------------------------------------------------- state
VARIABLES
    now,          \* time.time(), in seconds
    private_key,    \* HybridSender._private_key / private_key_pem
    issued,       \* the prepare_out_of_session_act calls that returned a JWT
    jtiCount,     \* nonces drawn so far
    used_jtis,    \* OutOfSessionTokenRequest._used_jtis, per instance
    accepted,     \* per instance: the assertions a call has returned an act for
    last,         \* the receive_and_verify_act_jwt call that has just returned
    thr,          \* overlapping receive_and_verify_act_jwt calls on instance 1
    arg,          \* the arguments of the application-side call under study
    ret,          \* the application-side call that has just returned
    provider,     \* the adapter.request_token invocations made so far
    network,      \* the HTTP requests sent so far, in order
    adapter       \* the vendor adapter constructed, if any

\* The application-side observation, and the agent-side state.
app   == <<arg, ret, provider, network, adapter>>
net   == <<network, adapter>>
agent == <<used_jtis, accepted, last, thr>>

vars == <<now, private_key, issued, jtiCount, used_jtis, accepted, last, thr,
          arg, ret, provider, network, adapter>>

\* The assertions signed so far.
Wire == {c.jwt : c \in issued}

\* The verifiers' application public key (app_public_key_path).
AppPublicKey == PublicOf(AppKey)

NoCall ==
    [v |-> 0, tok |-> NoToken, aud |-> EmptyStr, at |-> 0, result |-> "none",
     act |-> {}, usedBefore |-> {}, usedAfter |-> {}, priorOk |-> FALSE,
     lookups |-> 0]

\* Threads calling receive_and_verify_act_jwt on one instance.
Threads == {1, 2}
Idle == [pc |-> "idle", tok |-> NoToken, aud |-> EmptyStr, result |-> "none",
         act |-> {}]

\* No application-side call is under study.
NoArg ==
    [kind |-> "none", session |-> {}, act |-> {}, agent_endpoint |-> EmptyStr,
     ttl_seconds |-> 0, agent_id |-> "", scope |-> <<>>,
     variant |-> "none", config |-> {}, statuses |-> <<>>,
     token_response |-> NoTokenResponse, api_url |-> EmptyStr,
     json_data |-> FALSE, vendor |-> None, env |-> NoEnv]
NoRet ==
    [op |-> "none", result |-> "none", message |-> "", act |-> {},
     jwt |-> NoToken, status_code |-> {}, sends |-> 0, log |-> {},
     config |-> NoConfig, cause |-> "none"]

\* No adapter has been constructed.
NoAdapter == [variant |-> "none", token_url |-> EmptyStr, client_id |-> "",
              client_secret |-> ""]

Init ==
    /\ now = 0
    /\ private_key \in SenderKeys
    /\ issued = {}
    /\ jtiCount = 0
    /\ used_jtis = [v \in Verifiers |-> {}]
    /\ accepted = [v \in Verifiers |-> {}]
    /\ last = NoCall
    /\ thr = [t \in Threads |-> Idle]
    /\ arg = NoArg
    /\ ret = NoRet
    /\ provider = {}
    /\ network = <<>>
    /\ adapter = NoAdapter

\* One second passes; `last` describes a call of the current second only.
Tick ==
    /\ now < MaxTime
    /\ now' = now + 1
    /\ last' = NoCall
    /\ UNCHANGED <<app, private_key, issued, jtiCount, used_jtis, accepted, thr>>

\* HybridSender.prepare_out_of_session_act(act, agent_endpoint, ttl_seconds)
\* returning a JWT (a call that raises changes nothing).
SenderJwt(act, agent_endpoint, ttl_seconds) ==
    JwtEncode(SenderPayload(act, agent_endpoint, ttl_seconds, now,
                            Jti(jtiCount + 1)), private_key)
SenderIssues(n, act, agent_endpoint, ttl_seconds) ==
    /\ Cardinality(issued) < n
    /\ PrepareResult(private_key, act, agent_endpoint) = "OK"
    /\ jtiCount' = jtiCount + 1
    /\ issued' = issued \cup
         {[by |-> "sender", act |-> act, aud |-> agent_endpoint,
           ttl |-> ttl_seconds, at |-> now,
           jwt |-> SenderJwt(act, agent_endpoint, ttl_seconds)]}
prepare_out_of_session_act_up_to(n, act, agent_endpoint, ttl_seconds) ==
    /\ SenderIssues(n, act, agent_endpoint, ttl_seconds)
    /\ UNCHANGED <<app, now, private_key, used_jtis, accepted, last, thr>>

prepare_out_of_session_act(act, agent_endpoint, ttl_seconds) ==
    prepare_out_of_session_act_up_to(MaxIssued, act, agent_endpoint, ttl_seconds)

\* agents/python HybridSender.prepare_out_of_session_act(human_identity,
\* agent_endpoint, ttl_seconds) returning a JWT.
AgentsPrepareResult(key) ==
    IF key = NoKey THEN "SigningKeyMissing" ELSE "OK"
AgentsSenderJwt(human_identity, agent_endpoint, ttl_seconds) ==
    JwtEncode(AgentsSenderPayload(human_identity, agent_endpoint, ttl_seconds,
                                  now), private_key)
AgentsSenderIssues(human_identity, agent_endpoint, ttl_seconds) ==
    /\ Cardinality(issued) < MaxIssued
    /\ AgentsPrepareResult(private_key) = "OK"
    /\ issued' = issued \cup
         {[by |-> "agents", act |-> human_identity, aud |-> agent_endpoint,
           ttl |-> ttl_seconds, at |-> now,
           jwt |-> AgentsSenderJwt(human_identity, agent_endpoint, ttl_seconds)]}
agents_prepare_out_of_session_act(human_identity, agent_endpoint, ttl_seconds) ==
    /\ AgentsSenderIssues(human_identity, agent_endpoint, ttl_seconds)
    /\ UNCHANGED <<app, now, private_key, jtiCount, used_jtis, accepted, last, thr>>

\* OutOfSessionTokenRequest.receive_and_verify_act_jwt(act_jwt,
\* expected_audience) on instance v, run to completion.
receive_and_verify_act_jwt(v, act_jwt, expected_audience) ==
    LET used   == used_jtis[v]
        result == VerifyResult(act_jwt, AppPublicKey, expected_audience, now, used)
        after  == VerifyUsed(act_jwt, AppPublicKey, expected_audience, now, used)
    IN  /\ used_jtis' = [used_jtis EXCEPT ![v] = after]
        /\ accepted' = IF result = "OK"
                       THEN [accepted EXCEPT ![v] = @ \cup {act_jwt}]
                       ELSE accepted
        /\ last' = [v |-> v, tok |-> act_jwt, aud |-> expected_audience,
                    at |-> now, result |-> result,
                    act |-> VerifyAct(act_jwt, AppPublicKey, expected_audience,
                                      now, used),
                    usedBefore |-> used, usedAfter |-> after,
                    priorOk |-> act_jwt \in accepted[v],
                    lookups |-> ReplayLookups(act_jwt, AppPublicKey,
                                              expected_audience, now)]
        /\ UNCHANGED <<app, now, private_key, issued, jtiCount, thr>>

\* What can be presented to an agent: the signed assertions and what a
\* party without the private key makes of them.
Presentable == Wire \cup UNION {Forged(tok) : tok \in Wire}

\* One application, one agent instance, calls one after another.
Next ==
    \/ Tick
    \/ \E act \in Acts, ep \in Endpoints, ttl \in TTLs :
          prepare_out_of_session_act(act, ep, ttl)
    \/ \E h \in AgentsActs, ep \in AgentsEndpoints, ttl \in TTLs :
          agents_prepare_out_of_session_act(h, ep, ttl)
    \/ \E tok \in Presentable, aud \in Audiences :
          receive_and_verify_act_jwt(1, tok, aud)

Spec == Init /\ [][Next]_vars

\* ------------------------------------------- several agent instances
\* Each OutOfSessionTokenRequest instance creates its own _used_jtis; the
\* instances are given the assertions the application signed.
MultiNext ==
    \/ Tick
    \/ \E act \in Acts, ep \in Endpoints, ttl \in TTLs :
          prepare_out_of_session_act(act, ep, ttl)
    \/ \E v \in Verifiers, tok \in Wire, aud \in Audiences :
          receive_and_verify_act_jwt(v, tok, aud)

MultiSpec == Init /\ [][MultiNext]_vars

\* ------------------------------------------------- overlapping calls
\* receive_and_verify_act_jwt takes no lock: a thread can be preempted
\* between jwt.decode, the test `jti in self._used_jtis`, the call
\* self._used_jtis.add(jti) and the extraction of act.

\* Thread t enters the call; jwt.decode returns or raises.
ConcDecode(t, act_jwt, expected_audience) ==
    LET d == JwtDecode(act_jwt, AppPublicKey, expected_audience, now) IN
    /\ thr[t].pc = "idle"
    /\ thr' = [thr EXCEPT ![t] =
                 [pc |-> IF d = "OK" THEN "check" ELSE "done", tok |-> act_jwt,
                  aud |-> expected_audience,
                  result |-> IF d = "OK" THEN "none" ELSE d, act |-> {}]]
    /\ UNCHANGED <<app, now, private_key, issued, jtiCount, used_jtis, accepted, last>>

\* if jti: if jti in self._used_jtis: raise
ConcCheck(t) ==
    LET p == thr[t].tok.payload IN
    /\ thr[t].pc = "check"
    /\ thr' = [thr EXCEPT ![t] =
                 IF ReplayDetected(p, used_jtis[1])
                 THEN [@ EXCEPT !.pc = "done", !.result = "ReplayDetected"]
                 ELSE [@ EXCEPT !.pc = IF JtiTruthy(p) THEN "add" ELSE "extract"]]
    /\ UNCHANGED <<app, now, private_key, issued, jtiCount, used_jtis, accepted, last>>

\* self._used_jtis.add(jti)
ConcAdd(t) ==
    /\ thr[t].pc = "add"
    /\ used_jtis' = [used_jtis EXCEPT ![1] = Consume(thr[t].tok.payload, @)]
    /\ thr' = [thr EXCEPT ![t].pc = "extract"]
    /\ UNCHANGED <<app, now, private_key, issued, jtiCount, accepted, last>>

\* act = decoded.get('act'); ...; return act
ConcExtract(t) ==
    LET p  == thr[t].tok.payload
        ok == ~ActMalformed(p)
    IN  /\ thr[t].pc = "extract"
        /\ thr' = [thr EXCEPT ![t] =
                     [@ EXCEPT !.pc = "done",
                               !.result = IF ok THEN "OK" ELSE "MalformedClaim",
                               !.act = IF ok THEN JsonLoads(p.act) ELSE {}]]
        /\ accepted' = IF ok THEN [accepted EXCEPT ![1] = @ \cup {thr[t].tok}]
                       ELSE accepted
        /\ UNCHANGED <<app, now, private_key, issued, jtiCount, used_jtis, last>>

ConcNext ==
    \/ \E act \in Acts, ep \in Endpoints, ttl \in TTLs :
          prepare_out_of_session_act_up_to(MaxConcIssued, act, ep, ttl)
    \/ \E t \in Threads, tok \in Wire, aud \in Audiences :
          ConcDecode(t, tok, aud)
    \/ \E t \in Threads : ConcCheck(t)
    \/ \E t \in Threads : ConcAdd(t)
    \/ \E t \in Threads : ConcExtract(t)

ConcSpec == Init /\ [][ConcNext]_vars

\* ------------------------------------------- two assertions, one instance
\* The application signs several assertions for one human; one agent
\* instance is given them, in any order, as often as the caller likes.
PairNext ==
    \/ Tick
    \/ \E ep \in Endpoints, ttl \in TTLs :
          prepare_out_of_session_act_up_to(MaxPairIssued, ActAlice, ep, ttl)
    \/ \E tok \in Wire, aud \in Audiences :
          receive_and_verify_act_jwt(1, tok, aud)

PairSpec == Init /\ [][PairNext]_vars

\* ------------------------------------- every assertion a key can sign
\* receive_and_verify_act_jwt is handed a string; what the application's key
\* (or another key) can have signed is not limited to what the senders of
\* this repository build.  Each assertion has its own jti, a good or a
\* malformed act, and expires MaxTtl after time 0.
SignedActs == {ActAlice, ActNoSub}
SignedJti(act, aud) ==
    Jti((IF act = ActAlice THEN 0 ELSE 2) + (IF aud = AgentUrl THEN 1 ELSE 2))
SignedPayloads ==
    {SenderPayload(act, aud, MaxTtl, 0, SignedJti(act, aud)) :
        act \in SignedActs, aud \in Audiences}
SignedTokens ==
    {JwtEncode(p, k) : p \in SignedPayloads, k \in {AppKey, OtherKey}}

SignedNext ==
    \/ Tick
    \/ \E tok \in SignedTokens, aud \in Audiences :
          receive_and_verify_act_jwt(1, tok, aud)

SignedSpec == Init /\ [][SignedNext]_vars

\* --------------------------------------------- every act a sender signs
\* Both senders, given every act (empty, without sub, with an empty sub); the
\* agent instance is given the assertions as signed.
ActNext ==
    \/ Tick
    \/ \E act \in Acts \cup {ActBlankSub}, ep \in Endpoints, ttl \in TTLs :
          prepare_out_of_session_act(act, ep, ttl)
    \/ \E h \in Acts \cup {ActBlankSub}, ep \in AgentsEndpoints, ttl \in TTLs :
          agents_prepare_out_of_session_act(h, ep, ttl)
    \/ \E tok \in Wire, aud \in Audiences :
          receive_and_verify_act_jwt(1, tok, aud)

ActSpec == Init /\ [][ActNext]_vars

\* ------------------------------------------------ the application's calls
\* One application-side call at a time, on arguments fixed at the start:
\* a session record for extract_act_from_session; an act, an endpoint and a
\* ttl for the sender; an agent id, an act and a scope for request_token.
SenderTTLs == TTLs \cup {-1}
AppActs    == Acts \cup {ActBlankSub}
AgentIds   == {"", "agent-1"}
Scopes     == {<<>>, <<"read">>}

SessionArgs == {[NoArg EXCEPT !.kind = "session", !.session = s] : s \in Sessions}
SenderArgs ==
    {[NoArg EXCEPT !.kind = "sender", !.act = a, !.agent_endpoint = e,
                   !.ttl_seconds = t] :
        a \in AppActs, e \in Endpoints, t \in SenderTTLs}
RequestArgs ==
    {[NoArg EXCEPT !.kind = "request", !.agent_id = i, !.act = a, !.scope = sc] :
        i \in AgentIds, a \in AppActs, sc \in Scopes}

AppInit ==
    /\ now = 0
    /\ private_key \in SenderKeys
    /\ issued = {}
    /\ jtiCount = 0
    /\ used_jtis = [v \in Verifiers |-> {}]
    /\ accepted = [v \in Verifiers |-> {}]
    /\ last = NoCall
    /\ thr = [t \in Threads |-> Idle]
    /\ arg \in SessionArgs \cup SenderArgs \cup RequestArgs
    /\ ret = NoRet
    /\ provider = {}
    /\ network = <<>>
    /\ adapter = NoAdapter

\* HybridSender.extract_act_from_session(session)
extract_act_from_session ==
    /\ arg.kind = "session"
    /\ ret' = [NoRet EXCEPT !.op = "extract_act_from_session",
                            !.result = ExtractResult(arg.session),
                            !.message = ExtractMessage(arg.session),
                            !.act = ExtractAct(arg.session)]
    /\ UNCHANGED <<net, arg, provider, now, private_key, issued, jtiCount, agent>>

\* HybridSender.prepare_in_session_act(act)
prepare_in_session_act ==
    /\ arg.kind = "sender"
    /\ ret' = [NoRet EXCEPT !.op = "prepare_in_session_act", !.result = "OK",
                            !.act = PrepareInSessionAct(arg.act),
                            !.log = SenderLog(arg.act)]
    /\ UNCHANGED <<net, arg, provider, now, private_key, issued, jtiCount, agent>>

\* agents/python HybridSender.prepare_in_session_act(human_identity)
agents_prepare_in_session_act ==
    /\ arg.kind = "sender"
    /\ ret' = [NoRet EXCEPT !.op = "agents.prepare_in_session_act",
                            !.result = "OK", !.act = arg.act,
                            !.log = AgentsSenderLog(arg.act)]
    /\ UNCHANGED <<net, arg, provider, now, private_key, issued, jtiCount, agent>>

\* HybridSender.prepare_out_of_session_act(act, agent_endpoint, ttl_seconds),
\* returning a JWT or raising.
prepare_out_of_session_act_call ==
    LET r == PrepareResult(private_key, arg.act, arg.agent_endpoint) IN
    /\ arg.kind = "sender"
    /\ ret' = [NoRet EXCEPT
                 !.op = "prepare_out_of_session_act", !.result = r,
                 !.jwt = IF r = "OK"
                         THEN SenderJwt(arg.act, arg.agent_endpoint, arg.ttl_seconds)
                         ELSE NoToken]
    /\ IF r = "OK"
       THEN /\ SenderIssues(MaxIssued, arg.act, arg.agent_endpoint,
                            arg.ttl_seconds)
            /\ network' = network \o
                 PrepareSends(SenderJwt(arg.act, arg.agent_endpoint,
                                        arg.ttl_seconds), arg.agent_endpoint)
       ELSE UNCHANGED <<issued, jtiCount, network>>
    /\ UNCHANGED <<adapter, arg, provider, now, private_key, agent>>

\* agents/python HybridSender.prepare_out_of_session_act, returning or raising.
agents_prepare_out_of_session_act_call ==
    LET r == AgentsPrepareResult(private_key) IN
    /\ arg.kind = "sender"
    /\ ret' = [NoRet EXCEPT
                 !.op = "agents.prepare_out_of_session_act", !.result = r,
                 !.jwt = IF r = "OK"
                         THEN AgentsSenderJwt(arg.act, arg.agent_endpoint,
                                              arg.ttl_seconds)
                         ELSE NoToken]
    /\ IF r = "OK"
       THEN AgentsSenderIssues(arg.act, arg.agent_endpoint, arg.ttl_seconds)
       ELSE UNCHANGED issued
    /\ UNCHANGED <<net, arg, provider, now, private_key, jtiCount, agent>>

\* request_token(agent_id, act, scope) of InSessionTokenRequest ("in_session")
\* or OutOfSessionTokenRequest ("out_of_session"); `outcome` is what the
\* adapter does if it is invoked.
request_token(via, outcome) ==
    /\ arg.kind = "request"
    /\ IF InvalidInputs(arg.agent_id, arg.act, arg.scope)
       THEN /\ ret' = [NoRet EXCEPT !.op = via, !.result = "InvalidClaim",
                                    !.cause = "input"]
            /\ provider' = provider
       ELSE /\ outcome \in AdapterOutcomesFor(arg.act)
            /\ ret' = [NoRet EXCEPT !.op = via,
                                    !.result = RequestTokenResult(outcome),
                                    !.cause = Cause(outcome)]
            /\ provider' = provider \cup
                 {[via |-> via, agent_id |-> arg.agent_id, act |-> arg.act,
                   scope |-> arg.scope]}
    /\ UNCHANGED <<net, arg, now, private_key, issued, jtiCount, agent>>

\* Binding the arguments of a Python call to the parameters of the callee:
\* TypeError when a given name is no parameter of the callee or a parameter
\* without default is not given.
BindCall(required, optional, given) ==
    IF given \subseteq (required \cup optional) /\ required \subseteq given
    THEN "OK" ELSE "TypeError"

\* request_token(self, sub, act, scope) of the agents-package adapters.
AdapterParams == {"sub", "act", "scope"}
\* prepare_out_of_session_act(self, human_identity, agent_endpoint,
\* ttl_seconds=60) of the agents-package HybridSender.
SenderRequired == {"human_identity", "agent_endpoint"}
SenderOptional == {"ttl_seconds"}

\* InSessionTokenRequester.request_token(agent_identity, human_identity) of
\* the agents package: act_data = sender.prepare_in_session_act(...), then
\* adapter.request_token(agent_identity=..., act=act_data); exceptions are
\* logged and raised again.
agents_in_session_request_token(outcome) ==
    LET act_data == arg.act
        bound    == BindCall(AdapterParams, {}, {"agent_identity", "act"})
    IN  /\ arg.kind = "request"
        /\ IF bound = "OK"
           THEN /\ ret' = [NoRet EXCEPT !.op = "agents.in_session",
                                        !.result = outcome,
                                        !.cause = Cause(outcome)]
                /\ provider' = provider \cup
                     {[via |-> "agents.in_session", agent_id |-> arg.agent_id,
                       act |-> act_data, scope |-> <<>>]}
           ELSE /\ ret' = [NoRet EXCEPT !.op = "agents.in_session",
                                        !.result = bound]
                /\ provider' = provider
        /\ UNCHANGED <<net, arg, now, private_key, issued, jtiCount, agent>>

\* OutOfSessionTokenRequester.request_token(agent_identity, human_identity)
\* of the agents package: act_package =
\* sender.prepare_out_of_session_act(human_identity), then
\* adapter.request_token(agent_identity=..., act=act_package), the act being
\* the signed JWT string (written here as a dict holding the assertion).
agents_out_of_session_request_token(outcome) ==
    LET sent  == BindCall(SenderRequired, SenderOptional, {"human_identity"})
        bound == BindCall(AdapterParams, {}, {"agent_identity", "act"})
        r     == IF sent # "OK" THEN sent
                 ELSE IF AgentsPrepareResult(private_key) # "OK"
                      THEN AgentsPrepareResult(private_key)
                 ELSE IF bound # "OK" THEN bound
                 ELSE outcome
    IN  /\ arg.kind = "request"
        /\ ret' = [NoRet EXCEPT !.op = "agents.out_of_session", !.result = r]
        /\ IF sent = "OK" /\ AgentsPrepareResult(private_key) = "OK"
              /\ bound = "OK"
           THEN provider' = provider \cup
                     {[via |-> "agents.out_of_session",
                       agent_id |-> arg.agent_id,
                       act |-> {<<"act_jwt", "signed">>}, scope |-> <<>>]}
           ELSE provider' = provider
        /\ UNCHANGED <<net, arg, now, private_key, issued, jtiCount, agent>>

AppNext ==
    \/ extract_act_from_session
    \/ prepare_in_session_act
    \/ agents_prepare_in_session_act
    \/ prepare_out_of_session_act_call
    \/ agents_prepare_out_of_session_act_call
    \/ \E outcome \in AdapterOutcomes : request_token("in_session", outcome)
    \/ \E outcome \in AdapterOutcomes : request_token("out_of_session", outcome)
    \/ \E outcome \in AdapterOutcomes : agents_in_session_request_token(outcome)
    \/ \E outcome \in AdapterOutcomes :
          agents_out_of_session_request_token(outcome)

AppSpec == AppInit /\ [][AppNext]_vars

\* --------------------------------------------- the out-of-session flow
\* One OutOfSessionTokenRequest instance: the application signs an
\* assertion for alice, the instance is given assertions to verify, and its
\* request_token is called with the act the caller holds.
FlowArgs ==
    {[NoArg EXCEPT !.kind = "request", !.agent_id = "agent-1", !.act = a,
                   !.scope = <<"read">>] : a \in {ActAlice, ActMallory}}

FlowInit ==
    /\ now = 0
    /\ private_key \in SenderKeys
    /\ issued = {}
    /\ jtiCount = 0
    /\ used_jtis = [v \in Verifiers |-> {}]
    /\ accepted = [v \in Verifiers |-> {}]
    /\ last = NoCall
    /\ thr = [t \in Threads |-> Idle]
    /\ arg \in FlowArgs
    /\ ret = NoRet
    /\ provider = {}
    /\ network = <<>>
    /\ adapter = NoAdapter

FlowNext ==
    \/ \E ep \in Endpoints, ttl \in TTLs :
          prepare_out_of_session_act(ActAlice, ep, ttl)
    \/ \E tok \in Wire, aud \in Audiences :
          receive_and_verify_act_jwt(1, tok, aud)
    \/ \E outcome \in AdapterOutcomes : request_token("out_of_session", outcome)

FlowSpec == FlowInit /\ [][FlowNext]_vars

\* ------------------------------------------------ adapters and API calls
\* One adapter is constructed from a configuration and asked for a token,
\* or one call_api is made with a TokenResponse; the other side answers the
\* successive attempts with arg.statuses.
NetActs == {ActAlice, ActFull}
AdapterArgs ==
    {[NoArg EXCEPT !.kind = "adapter", !.variant = v, !.config = c,
                   !.agent_id = "agent-1", !.act = a, !.scope = <<"read">>,
                   !.statuses = st] :
        v \in Variants, c \in Configs, a \in NetActs, st \in StatusSeqs}
ApiArgs ==
    {[NoArg EXCEPT !.kind = "api", !.token_response = tr, !.api_url = u,
                   !.json_data = j, !.statuses = st] :
        tr \in TokenResponses, u \in ApiUrls, j \in BOOLEAN,
        st \in StatusSeqs}

NetInit ==
    /\ now = 0
    /\ private_key = AppKey
    /\ issued = {}
    /\ jtiCount = 0
    /\ used_jtis = [v \in Verifiers |-> {}]
    /\ accepted = [v \in Verifiers |-> {}]
    /\ last = NoCall
    /\ thr = [t \in Threads |-> Idle]
    /\ arg \in AdapterArgs \cup ApiArgs
    /\ ret = NoRet
    /\ provider = {}
    /\ network = <<>>
    /\ adapter = NoAdapter

\* BaseAdapter.__init__(config) / OktaAdapter(...) / Auth0Adapter(...) /
\* EntraIDAdapter(...)
construct_adapter ==
    LET r == InitResult(arg.variant, arg.config) IN
    /\ arg.kind = "adapter"
    /\ ret.op = "none"
    /\ ret' = [NoRet EXCEPT !.op = "construct", !.result = r]
    /\ adapter' = IF r = "OK" THEN Constructed(arg.variant, arg.config)
                  ELSE NoAdapter
    /\ UNCHANGED <<network, arg, provider, now, private_key, issued, jtiCount,
                   agent>>

\* OktaAdapter / Auth0Adapter / EntraIDAdapter.request_token(sub, act, scope)
adapter_request_token ==
    LET n    == TokenAttempts(adapter, arg.statuses)
        body == Payload(adapter, arg.agent_id, arg.act, arg.scope)
        st   == arg.statuses[IF n = 0 THEN 1 ELSE n]
    IN  /\ arg.kind = "adapter"
        /\ ret.op = "construct"
        /\ adapter.variant \in AgentsVariants
        /\ network' = network \o
             [i \in 1..n |-> Request("provider", "POST", adapter.token_url,
                                     NoHeaders, body)]
        /\ ret' = [NoRet EXCEPT !.op = "adapter.request_token",
                                !.result = AdapterResult(adapter, st),
                                !.sends = n]
        /\ UNCHANGED <<adapter, arg, provider, now, private_key, issued,
                       jtiCount, agent>>

\* InSessionAPICall.call_api / OutOfSessionAPICall.call_api(token_response,
\* api_url, method, json_data)
call_api(class) ==
    LET n == ApiAttempts(arg.statuses)
        headers == CallHeaders(class, arg.token_response, arg.json_data)
    IN  /\ arg.kind = "api"
        /\ ret.op = "none"
        /\ IF ApiUrlRejected(arg.api_url)
           THEN /\ ret' = [NoRet EXCEPT !.op = class, !.result = "ValueError"]
                /\ network' = network
           ELSE /\ ret' = [NoRet EXCEPT !.op = class,
                                        !.result = ApiResult(arg.statuses),
                                        !.sends = n]
                /\ network' = network \o
                     [i \in 1..n |-> Request("api", "GET", arg.api_url,
                                             headers, NoBody)]
        /\ UNCHANGED <<adapter, arg, provider, now, private_key, issued,
                       jtiCount, agent>>

NetNext ==
    \/ construct_adapter
    \/ adapter_request_token
    \/ call_api("InSessionAPICall")
    \/ call_api("OutOfSessionAPICall")

NetSpec == NetInit /\ [][NetNext]_vars

\* ------------------------------------------------------------ get_config
\* One get_config call in one environment.
ConfigArgs ==
    {[NoArg EXCEPT !.kind = "config", !.vendor = v, !.env = e] :
        v \in VendorArgs, e \in Envs}

ConfigInit ==
    /\ now = 0
    /\ private_key = AppKey
    /\ issued = {}
    /\ jtiCount = 0
    /\ used_jtis = [v \in Verifiers |-> {}]
    /\ accepted = [v \in Verifiers |-> {}]
    /\ last = NoCall
    /\ thr = [t \in Threads |-> Idle]
    /\ arg \in ConfigArgs
    /\ ret = NoRet
    /\ provider = {}
    /\ network = <<>>
    /\ adapter = NoAdapter

get_config ==
    LET r == GetConfig(arg.vendor, arg.env) IN
    /\ arg.kind = "config"
    /\ ret' = [NoRet EXCEPT !.op = "get_config", !.result = r.result,
                            !.message = r.message, !.config = r.config]
    /\ UNCHANGED <<net, arg, provider, now, private_key, issued, jtiCount,
                   agent>>

ConfigNext == get_config

ConfigSpec == ConfigInit /\ [][ConfigNext]_vars

\* ------------------------------------------------- properties of one call
\* A receive_and_verify_act_jwt call has just returned.
Called == last.result # "none"

\* The assertion carries the application's own RS256 signature over exactly
\* the header and payload presented.
Genuine(tok) == tok = JwtEncode(tok.payload, AppKey)

\* The call verifies the JWT of prepare call c, made by the application, with
\* the audience it was issued for, and no earlier call has returned its act.
FirstPresentation(c) ==
    /\ Called
    /\ private_key = AppKey
    /\ last.tok = c.jwt
    /\ last.aud = c.aud
    /\ ~last.priorOk

\* C1 as stated: an assertion carrying a jti that has been accepted once makes
\* every later call on the instance fail with ReplayDetected.
C1_EveryLaterCallReplayDetected ==
    (Called /\ "jti" \in last.tok.payload.has /\ last.priorOk)
        => last.result = "ReplayDetected"

\* C1, amended: once an assertion carrying a jti has been accepted, no later
\* call on the instance succeeds; a later call fails with ReplayDetected when
\* made before exp with the matching audience, and with Expired or
\* AudienceMismatch (which jwt.decode raises first) otherwise.
C1_AtMostOnce ==
    (Called /\ "jti" \in last.tok.payload.has /\ last.priorOk)
        => last.result =
             IF last.at >= last.tok.payload.exp THEN "Expired"
             ELSE IF last.aud # last.tok.payload.aud THEN "AudienceMismatch"
             ELSE "ReplayDetected"

C1_Witness ==
    /\ Called
    /\ "jti" \in last.tok.payload.has
    /\ last.priorOk
    /\ last.result = "ReplayDetected"

\* C3: an RS256 assertion whose signature is not the application's over the
\* presented payload fails with SignatureInvalid, returns no act and leaves
\* the replay set alone, whatever exp, aud, jti and act it carries.
C3_SignatureBeforeClaims ==
    (Called /\ last.tok.alg = "RS256" /\ ~Genuine(last.tok))
        => /\ last.result = "SignatureInvalid"
           /\ last.act = {}
           /\ last.usedAfter = last.usedBefore

C3_Witness ==
    /\ Called
    /\ last.tok.alg = "RS256"
    /\ ~Genuine(last.tok)
    /\ last.tok.payload.exp <= last.at
    /\ last.tok.payload.aud # last.aud
    /\ last.result = "SignatureInvalid"

\* C4: an act with a sub, prepared for an HTTPS audience with a positive ttl
\* and verified for the first time, before expiry, with that audience, comes
\* back equal to the original.
C4_RoundTrip ==
    \A c \in issued :
        (FirstPresentation(c) /\ c.by = "sender" /\ last.at < c.at + c.ttl)
            => /\ last.result = "OK"
               /\ last.act = c.act

C4_Witness ==
    \E c \in issued :
        /\ FirstPresentation(c)
        /\ c.by = "sender"
        /\ c.act = ActFull
        /\ last.result = "OK"
        /\ last.act = ActFull

\* An otherwise valid assertion: signed by the application, presented with
\* its own non-empty audience, carrying an act with a sub.
OtherwiseValid(c) ==
    /\ FirstPresentation(c)
    /\ c.aud # EmptyStr
    /\ HasKey(c.act, "sub")

\* C5 as stated: accepted at every t' with t <= t' <= t + T, Expired after.
C5_AcceptedThroughExp ==
    \A c \in issued :
        (OtherwiseValid(c) /\ c.ttl > 0)
            => /\ last.at <= c.at + c.ttl => last.result = "OK"
               /\ last.at > c.at + c.ttl => last.result = "Expired"

\* C5, amended: an otherwise valid assertion issued at t with ttl T is
\* accepted by a first verification at every t' with t <= t' < t + T and
\* fails with Expired at every t' >= t + T.
C5_AcceptanceWindow ==
    \A c \in issued :
        OtherwiseValid(c)
            => /\ last.at < c.at + c.ttl =>
                    (last.result = "OK" /\ last.act = c.act)
               /\ last.at >= c.at + c.ttl => last.result = "Expired"

C5_Witness ==
    \E c \in issued :
        /\ OtherwiseValid(c)
        /\ c.ttl > 0
        /\ last.at = c.at + c.ttl
        /\ last.result = "Expired"

\* C7 as stated: valid signature, unexpired, aud different from the expected
\* audience: AudienceMismatch.
C7_AnyDifferenceIsMismatch ==
    (/\ Called
     /\ Genuine(last.tok)
     /\ last.at < last.tok.payload.exp
     /\ last.tok.payload.aud # last.aud)
        => /\ last.result = "AudienceMismatch"
           /\ last.act = {}

\* C7, amended: an assertion with a valid signature and unexpired exp whose
\* aud is a non-empty string other than expected_audience fails with
\* AudienceMismatch; one whose aud is the empty string fails with the generic
\* 'Act JWT invalid: ...' error; neither yields an act.
C7_AudienceEnforced ==
    (/\ Called
     /\ Genuine(last.tok)
     /\ last.at < last.tok.payload.exp
     /\ last.tok.payload.aud # last.aud)
        => /\ last.result = IF last.tok.payload.aud = EmptyStr
                            THEN "InvalidToken" ELSE "AudienceMismatch"
           /\ last.act = {}

C7_Witness ==
    /\ Called
    /\ Genuine(last.tok)
    /\ last.at < last.tok.payload.exp
    /\ last.tok.payload.aud = OtherUrl
    /\ last.aud = AgentUrl
    /\ last.result = "AudienceMismatch"

\* C8: an assertion signed (RS256) with a private key other than the
\* application's fails with SignatureInvalid and yields no act.
C8_WrongSigner ==
    (Called /\ last.tok = JwtEncode(last.tok.payload, OtherKey))
        => /\ last.result = "SignatureInvalid"
           /\ last.act = {}

C8_Witness ==
    /\ Called
    /\ last.tok = JwtEncode(last.tok.payload, OtherKey)
    /\ last.at < last.tok.payload.exp
    /\ last.tok.payload.aud = last.aud
    /\ last.result = "SignatureInvalid"

\* C9: an assertion whose header algorithm is not RS256 ("none", HS256 keyed
\* with the public key) is rejected, yields no act and consumes nothing.
C9_AlgorithmPinned ==
    (Called /\ last.tok.alg # "RS256")
        => /\ last.result = "InvalidToken"
           /\ last.act = {}
           /\ last.usedAfter = last.usedBefore
           /\ last.tok \notin accepted[last.v]

C9_Witness ==
    /\ Called
    /\ last.tok.alg = "HS256"
    /\ last.tok.sig.key = AppPublicKey
    /\ last.at < last.tok.payload.exp
    /\ last.tok.payload.aud = last.aud
    /\ last.result = "InvalidToken"

\* C10: an assertion without a jti is never replay-checked and leaves the
\* replay set unchanged; it is accepted again and again while unexpired, and
\* expiry and audience are enforced on it as on any other assertion.
C10_NoJtiNoReplayCheck ==
    LET p == last.tok.payload IN
    (Called /\ "jti" \notin p.has)
        => /\ last.usedAfter = last.usedBefore
           /\ last.result # "ReplayDetected"
           /\ Genuine(last.tok) =>
                last.result =
                    IF last.at >= p.exp THEN "Expired"
                    ELSE IF p.aud = EmptyStr THEN "InvalidToken"
                    ELSE IF p.aud # last.aud THEN "AudienceMismatch"
                    ELSE IF ~HasKey(JsonLoads(p.act), "sub") THEN "MalformedClaim"
                    ELSE "OK"

C10_Witness ==
    /\ Called
    /\ "jti" \notin last.tok.payload.has
    /\ last.priorOk
    /\ last.result = "OK"

\* C2: two overlapping calls for assertions with the same jti never both
\* return an act.
C2_NeverBothSucceed ==
    \A t1, t2 \in Threads :
        (/\ t1 # t2
         /\ thr[t1].pc = "done" /\ thr[t2].pc = "done"
         /\ "jti" \in thr[t1].tok.payload.has
         /\ "jti" \in thr[t2].tok.payload.has
         /\ thr[t1].tok.payload.jti = thr[t2].tok.payload.jti)
            => ~(thr[t1].result = "OK" /\ thr[t2].result = "OK")

\* C6 as stated: an assertion carrying a jti is accepted by at most one
\* instance in the whole system.
C6_OncePerSystem ==
    \A tok \in Wire :
        "jti" \in tok.payload.has
            => Cardinality({v \in Verifiers : tok \in accepted[v]}) <= 1

\* C6, amended: over any sequence of verifications, each instance accepts an
\* assertion carrying a jti at most once and keeps its jti in its own
\* _used_jtis; the sets are not shared, so another instance accepts the same
\* assertion once more.
C6_OncePerInstance ==
    /\ \A v \in Verifiers : \A tok \in accepted[v] :
          "jti" \in tok.payload.has => tok.payload.jti \in used_jtis[v]
    /\ (Called /\ "jti" \in last.tok.payload.has /\ last.result = "OK")
          => /\ ~last.priorOk
             /\ last.tok.payload.jti \notin last.usedBefore

C6_Witness ==
    /\ Called
    /\ last.v = 2
    /\ "jti" \in last.tok.payload.has
    /\ last.result = "OK"
    /\ last.tok \in accepted[1]

\* ------------------------------------------- properties of the sender
AllClaims == {"iss", "sub", "aud", "exp", "iat", "jti", "act"}

\* C11: every assertion a HybridSender has issued carries iss, sub =
\* 'application', aud = the endpoint given, iat, exp = iat + ttl_seconds, a
\* jti and the act, and exp > iat.
C11_IssuedPayloadComplete ==
    \A c \in issued :
        LET p == c.jwt.payload IN
        /\ p.has = AllClaims
        /\ p.sub = "application"
        /\ p.aud = c.aud
        /\ p.iat = c.at
        /\ p.exp = p.iat + c.ttl
        /\ p.exp > p.iat
        /\ p.jti # NoJti
        /\ JsonLoads(p.act) = c.act

\* A prepare_out_of_session_act call of either sender has just returned.
PrepareOps == {"prepare_out_of_session_act", "agents.prepare_out_of_session_act"}

\* C12: a prepare_out_of_session_act call (key configured, act with a sub)
\* whose audience is not an https:// URL or whose ttl_seconds is <= 0 fails
\* with InvalidAssertionRequest and produces no assertion.
C12_RejectsBadAudienceOrTtl ==
    (/\ ret.op \in PrepareOps
     /\ private_key # NoKey
     /\ HasKey(arg.act, "sub")
     /\ ~StartsWithHttps(arg.agent_endpoint) \/ arg.ttl_seconds <= 0)
        => /\ ret.result = "InvalidAssertionRequest"
           /\ ret.jwt = NoToken
           /\ issued = {}

\* C13: assertions from separate prepare_out_of_session_act calls carry
\* different jti values, one per call; each of them is accepted on its first
\* timely presentation whatever else has been consumed, and ReplayDetected
\* is raised only for an assertion that was itself accepted before.
C13_FreshNonce ==
    /\ \A c1, c2 \in issued :
          c1 # c2 => c1.jwt.payload.jti # c2.jwt.payload.jti
    /\ Cardinality({c.jwt.payload.jti : c \in issued}) = jtiCount
    /\ \A c \in issued :
          (FirstPresentation(c) /\ last.at < c.at + c.ttl)
              => last.result = "OK"
    /\ (Called /\ last.result = "ReplayDetected") => last.priorOk

C13_Witness ==
    \E c1, c2 \in issued :
        /\ c1 # c2
        /\ c1.act = c2.act /\ c1.aud = c2.aud
        /\ c1.ttl = c2.ttl /\ c1.at = c2.at
        /\ c1.jwt \in accepted[1]
        /\ last.tok = c2.jwt
        /\ last.usedBefore = {c1.jwt.payload.jti}
        /\ last.result = "OK"

\* C14: no step removes a jti from an instance's consumed set.
C14_NeverDropped ==
    [][\A v \in Verifiers : used_jtis[v] \subseteq used_jtis'[v]]_vars

C14_Witness ==
    \E c \in issued :
        /\ c.jwt \in accepted[1]
        /\ Called
        /\ last.tok # c.jwt
        /\ last.result = "OK"
        /\ now < c.at + c.ttl
        /\ c.jwt.payload.jti \in used_jtis[1]
        /\ Cardinality(used_jtis[1]) = MaxPairIssued

\* C15 as stated: every call performs exactly one check of the consumed set.
C15_ExactlyOneLookup ==
    Called => last.lookups = 1

\* C15, amended: a call consults the consumed set at most once: exactly once
\* when jwt.decode has accepted an assertion that carries a jti (the call then
\* ends in ReplayDetected, MalformedClaim or success), and not at all when
\* jwt.decode raises or the assertion has no jti.
C15_AtMostOneLookup ==
    Called =>
        last.lookups =
            IF /\ last.result \in {"ReplayDetected", "MalformedClaim", "OK"}
               /\ "jti" \in last.tok.payload.has
            THEN 1 ELSE 0

C15_Witness ==
    /\ Called
    /\ "jti" \in last.tok.payload.has
    /\ Genuine(last.tok)
    /\ last.result = "Expired"
    /\ last.lookups = 0

\* C16: adapter.request_token is never invoked with an act whose sub is
\* absent or the empty string.
C16_AdapterNeverSeesEmptySub ==
    \A c \in provider :
        /\ HasKey(c.act, "sub")
        /\ Get(c.act, "sub") # ""

C18_KeyCheckedFirst ==
    private_key = NoKey =>
        /\ ret.op \in PrepareOps
              => /\ ret.result = "SigningKeyMissing"
                 /\ ret.jwt = NoToken
                 /\ issued = {}
        /\ ret.op = "prepare_in_session_act"
              => ret.result = "OK" /\ ret.act = arg.act
        /\ (/\ ret.op = "extract_act_from_session"
            /\ \E k \in {"email", "user_email", "userPrincipalName", "mail"} :
                  HasKey(arg.session, k) /\ Get(arg.session, k) # "")
              => ret.result = "OK" /\ HasKey(ret.act, "email")

C18_Witness ==
    /\ private_key = NoKey
    /\ ret.op = "prepare_out_of_session_act"
    /\ arg.act = ActEmpty
    /\ arg.agent_endpoint = PlainUrl
    /\ arg.ttl_seconds <= 0
    /\ ret.result = "SigningKeyMissing"

\* The first of the keys k1, k2, ... whose value in session s is a non-empty
\* string, by cases.
NonEmptyAt(s, k) == HasKey(s, k) /\ Get(s, k) # ""
ExpectedEmail(s) ==
    IF NonEmptyAt(s, "email") THEN Get(s, "email")
    ELSE IF NonEmptyAt(s, "user_email") THEN Get(s, "user_email")
    ELSE IF NonEmptyAt(s, "userPrincipalName") THEN Get(s, "userPrincipalName")
    ELSE Get(s, "mail")
ExpectedSub(s) ==
    IF NonEmptyAt(s, "sub") THEN Get(s, "sub")
    ELSE IF NonEmptyAt(s, "user_id") THEN Get(s, "user_id")
    ELSE IF NonEmptyAt(s, "oid") THEN Get(s, "oid")
    ELSE ExpectedEmail(s)

\* C19: extract_act_from_session raises exactly when none of email,
\* user_email, userPrincipalName, mail is non-empty; otherwise the act has the
\* first non-empty email field, the first non-empty of sub, user_id, oid (else
\* the email) as sub, a name only if a name field is non-empty, nothing else,
\* and a non-empty sub.
C19_SessionNormalized ==
    LET s == arg.session
        hasEmail == \E k \in {"email", "user_email", "userPrincipalName", "mail"} :
                        NonEmptyAt(s, k)
        hasName  == \E k \in {"name", "display_name", "displayName"} :
                        NonEmptyAt(s, k)
    IN  ret.op = "extract_act_from_session" =>
          /\ ret.result = "MissingIdentity" <=> ~hasEmail
          /\ ret.result = "OK" <=> hasEmail
          /\ ret.result = "MissingIdentity" => ret.act = {}
          /\ ret.result = "OK" =>
                /\ Get(ret.act, "email") = ExpectedEmail(s)
                /\ Get(ret.act, "sub") = ExpectedSub(s)
                /\ Get(ret.act, "sub") # ""
                /\ HasKey(ret.act, "name") <=> hasName
                /\ {it[1] : it \in ret.act} \subseteq {"sub", "email", "name"}
                /\ Cardinality(ret.act) = IF hasName THEN 3 ELSE 2

C19_Witness ==
    /\ ret.op = "extract_act_from_session"
    /\ ret.result = "OK"
    /\ HasKey(arg.session, "email") /\ Get(arg.session, "email") = ""
    /\ ~HasKey(arg.session, "user_email")
    /\ HasKey(arg.session, "userPrincipalName")
    /\ HasKey(arg.session, "mail")
    /\ \A k \in {"sub", "user_id", "oid"} : ~NonEmptyAt(arg.session, k)
    /\ Get(ret.act, "sub") = SessionValue["userPrincipalName"]
    /\ ~HasKey(ret.act, "name")

\* C20: prepare_in_session_act returns a claim equal to its argument.
C20_InSessionIdentity ==
    ret.op = "prepare_in_session_act" =>
        /\ ret.result = "OK"
        /\ ret.act = arg.act

C20_Witness ==
    /\ ret.op = "prepare_in_session_act"
    /\ arg.act = ActFull
    /\ ret.act = ActFull

\* C21: extract_act_from_session, prepare_in_session_act and
\* prepare_out_of_session_act, returning or raising, leave the session record
\* and the act they were given, the sender's key and the verifier's replay
\* set as they were, and send nothing over the network.
SenderOps ==
    {"extract_act_from_session", "prepare_in_session_act",
     "prepare_out_of_session_act", "agents.prepare_out_of_session_act"}
C21_SenderOpsChangeNothing ==
    [][ret'.op \in SenderOps =>
          /\ arg' = arg
          /\ private_key' = private_key
          /\ used_jtis' = used_jtis
          /\ network' = network]_vars

C21_Witness ==
    /\ ret.op = "prepare_out_of_session_act"
    /\ ret.result = "OK"
    /\ arg.act = ActFull
    /\ private_key = AppKey
    /\ network = <<>>
    /\ used_jtis = [v \in Verifiers |-> {}]

\* A token request, or a call_api, has been made and its requests are in
\* `network`.
TokenRequested == ret.op = "adapter.request_token"
ApiClasses == {"InSessionAPICall", "OutOfSessionAPICall"}
ApiCalled == ret.op \in ApiClasses
NonSuccess(status) == status = NoResponse \/ status \notin 200..299

\* C22: constructing an adapter whose token endpoint does not start with
\* https://, or whose configuration lacks token_url, client_id or
\* client_secret, fails with ConfigurationError and leaves no adapter;
\* hence every token request goes to an https:// endpoint.
C22_ConstructionValidates ==
    /\ (/\ ret.op = "construct"
        /\ \/ ~StartsWithHttps(Constructed(arg.variant, arg.config).token_url)
           \/ RequiredFields \ arg.config.has # {})
          => (ret.result = "ConfigurationError" /\ adapter = NoAdapter)
    /\ \A i \in 1..Len(network) :
          network[i].to = "provider" => StartsWithHttps(network[i].url)

\* C23: a non-2xx answer or a network failure during a token request reaches
\* the caller of the adapter as TokenRequestError carrying the provider's
\* status code.
C23_FailureIsTokenRequestError ==
    (TokenRequested /\ ret.sends > 0 /\ NonSuccess(arg.statuses[1]))
        => /\ ret.result = "TokenRequestError"
           /\ arg.statuses[1] # NoResponse
                 => ret.status_code = {arg.statuses[1]}

C25_TokenRequestShape ==
    \A i \in 1..Len(network) :
        network[i].to = "provider" =>
            LET b == network[i].body IN
            /\ {"grant_type", "client_id", "client_secret", "scope"}
                   \subseteq b.has
            /\ b.grant_type = "client_credentials"
            /\ b.client_id = adapter.client_id
            /\ b.client_secret = adapter.client_secret
            /\ b.scope = arg.scope
            /\ adapter.variant \in {"okta", "auth0"}
                  => /\ {"sub", "act"} \subseteq b.has
                     /\ b.sub = arg.agent_id
                     /\ b.act = arg.act
            /\ adapter.variant = "entraid" => "act" \notin b.has

\* C26: every request call_api sends carries Authorization: Bearer
\* <access_token>, carries X-Act-Assertion: <act_assertion> exactly when the
\* TokenResponse has an assertion, and has the headers the other API-call
\* class builds for the same TokenResponse.
OtherClass(class) ==
    IF class = "InSessionAPICall" THEN "OutOfSessionAPICall"
    ELSE "InSessionAPICall"
C26_ProtectedResourceHeaders ==
    ApiCalled =>
      \A i \in 1..Len(network) :
        LET h  == network[i].headers
            tr == arg.token_response
        IN  /\ "Authorization" \in h.has
            /\ h.authorization = <<"Bearer", tr.access_token>>
            /\ "X-Act-Assertion" \in h.has <=> Truthy(tr.act_assertion)
            /\ "X-Act-Assertion" \in h.has
                  => h.x_act_assertion = tr.act_assertion
            /\ h = CallHeaders(OtherClass(ret.op), tr, arg.json_data)

C26_Witness ==
    /\ ret.op = "InSessionAPICall"
    /\ Len(network) = 1
    /\ arg.token_response.act_assertion = "assertion-1"
    /\ network[1].headers.x_act_assertion = "assertion-1"
    /\ network[1].headers.authorization = <<"Bearer", "tok-B">>

\* C27: call_api with an api_url that does not start with https:// fails with
\* ValueError and sends nothing; every request call_api sends goes to an
\* https:// URL.
C27_HttpsOnly ==
    /\ (ApiCalled /\ ~StartsWithHttps(arg.api_url))
          => (ret.result = "ValueError" /\ network = <<>>)
    /\ \A i \in 1..Len(network) :
          network[i].to = "api" => StartsWithHttps(network[i].url)

C27_Witness ==
    /\ ret.op = "OutOfSessionAPICall"
    /\ arg.api_url = ApiPlainUrl
    /\ arg.token_response.act_assertion = "assertion-1"
    /\ ret.result = "ValueError"
    /\ network = <<>>

\* C28: a call_api and a token request alike follow the bounded retry
\* policy: at most 1 + 3 attempts; only an attempt answered by 429, 500, 502,
\* 503 or 504 (or not answered) is followed by another; such an answer is
\* followed by another attempt until the cap is reached, and the call then
\* fails.
C28_BoundedRetryPolicy ==
    ((ApiCalled \/ TokenRequested) /\ ret.sends > 0)
        => /\ ret.sends <= 1 + RetryTotal
           /\ \A i \in 1..(ret.sends - 1) : Retried(arg.statuses[i])
           /\ ret.sends < 1 + RetryTotal
                 => arg.statuses[ret.sends] \notin status_forcelist
           /\ (/\ ret.sends = 1 + RetryTotal
               /\ arg.statuses[ret.sends] \in status_forcelist)
                 => ret.result # "OK"

\* C29: get_config returns a record whose token_url starts with https:// and
\* has a hostname, whose client_id and client_secret are non-empty and whose
\* vendor-specific extras are non-empty, or raises ConfigurationError.
Extras(config) ==
    (config.has \ {"token_url", "client_id", "client_secret"}) \ config.none
C29_ValidatedOrConfigurationError ==
    ret.op = "get_config" =>
        \/ ret.result = "ConfigurationError" /\ ret.config = NoConfig
        \/ /\ ret.result = "OK"
           /\ {"token_url", "client_id", "client_secret"}
                  \subseteq ret.config.has
           /\ StartsWithHttps(ret.config.token_url)
           /\ ret.config.token_url.host # ""
           /\ ret.config.client_id # <<>>
           /\ ret.config.client_secret # <<>>
           /\ \A f \in Extras(ret.config) : ret.config[f] # <<>>

\* C30: two executions that differ only in the values of the act claim's
\* sub, email and name produce the same log records, hashes aside; and
\* TokenResponse's repr is the same for two responses that differ only in
\* the access token and in the content of the assertion.
\* The same act with every non-empty value replaced by another one.
Twin(act) == {<<it[1], IF it[2] = "" THEN "" ELSE "bob">> : it \in act}
\* A log with the content of its hashes left out.
HashesAside(log) == {[r EXCEPT !.sub_hash = <<r.sub_hash[1], "">>] : r \in log}
LogOf(op, act) ==
    IF op = "prepare_in_session_act" THEN SenderLog(act)
    ELSE AgentsSenderLog(act)
C30_LogsIndependentOfSecrets ==
    /\ ret.op \in {"prepare_in_session_act", "agents.prepare_in_session_act"}
          => HashesAside(ret.log) = HashesAside(LogOf(ret.op, Twin(arg.act)))
    /\ \A t1, t2 \in TokenResponses :
          Truthy(t1.act_assertion) = Truthy(t2.act_assertion)
              => TokenResponseRepr(t1) = TokenResponseRepr(t2)

\* ----------------------------------------------------------- typed failures
RequestOps == {"in_session", "out_of_session"}

\* C31: a request_token call of either orchestrator that fails because of
\* its input -- found by the orchestrator's guard or by the adapter's own
\* act validation -- ends in the input error, a call that fails at the
\* provider ends in TokenRequestError, and no input failure is ever
\* reported as TokenRequestError.
C31_TypedFailures ==
    ret.op \in RequestOps
        => /\ ret.cause = "input" => ret.result = "InvalidClaim"
           /\ ret.cause = "provider" => ret.result = "TokenRequestError"

\* ------------------------------------------------ agents-package requesters
\* C32: InSessionTokenRequester.request_token hands the caller's human
\* identity, unchanged, as act together with the agent identity to the
\* adapter's request_token and returns the adapter's token response.
C32_InSessionCarriesBothSubjects ==
    ret.op = "agents.in_session"
        => /\ ret.result = "OK"
           /\ \E call \in provider :
                 /\ call.via = "agents.in_session"
                 /\ call.agent_id = arg.agent_id
                 /\ call.act = arg.act

\* C33: OutOfSessionTokenRequester.request_token returns a token response,
\* and the act that reaches the provider is the human identity dict itself,
\* not the signed assertion.
C33_OutOfSessionCarriesBothSubjects ==
    ret.op = "agents.out_of_session"
        => /\ ret.result = "OK"
           /\ \E call \in provider :
                 /\ call.via = "agents.out_of_session"
                 /\ call.agent_id = arg.agent_id
                 /\ call.act = arg.act

\* ------------------------------------------------- order of the checks
\* The checks a presented assertion fails, read off the assertion itself.
SigBad    == ~Genuine(last.tok)
ExpBad    == last.tok.payload.exp <= last.at
AudBad    == last.tok.payload.aud # last.aud
ReplayBad == last.tok.payload.jti \in last.usedBefore
ActBad    == ~HasKey(JsonLoads(last.tok.payload.act), "sub")

\* C34: a call reports the first failing check in the order signature,
\* expiry, audience, replay, act extraction, whatever later checks the
\* assertion fails as well.
C34_FirstFailingCheck ==
    Called =>
        /\ SigBad => last.result = "SignatureInvalid"
        /\ (~SigBad /\ ExpBad) => last.result = "Expired"
        /\ (~SigBad /\ ~ExpBad /\ AudBad) => last.result = "AudienceMismatch"
        /\ (~SigBad /\ ~ExpBad /\ ~AudBad /\ ReplayBad)
              => last.result = "ReplayDetected"
        /\ (~SigBad /\ ~ExpBad /\ ~AudBad /\ ~ReplayBad /\ ActBad)
              => last.result = "MalformedClaim"

C34_Witness ==
    /\ Called
    /\ ~SigBad /\ ~ExpBad /\ ~AudBad
    /\ ReplayBad /\ ActBad
    /\ last.result = "ReplayDetected"

\* C37: a call that fails with SignatureInvalid, Expired or AudienceMismatch
\* leaves the consumed set as it was, and when the call after it presents
\* the same assertion, still unexpired and not consumed before, with the
\* right audience, that call gets past the replay check.
C37_FailureBurnsNothing ==
    /\ [](last.result \in {"SignatureInvalid", "Expired", "AudienceMismatch"}
            => last.usedAfter = last.usedBefore)
    /\ [][(/\ last.result \in {"SignatureInvalid", "Expired", "AudienceMismatch"}
           /\ last.tok.payload.jti \notin last.usedBefore
           /\ last'.result # "none"
           /\ last'.tok = last.tok
           /\ Genuine(last'.tok)
           /\ last'.at < last'.tok.payload.exp
           /\ last'.aud = last'.tok.payload.aud)
             => last'.result = IF HasKey(JsonLoads(last'.tok.payload.act), "sub")
                               THEN "OK" ELSE "MalformedClaim"]_vars

C37_Witness ==
    /\ Called
    /\ ~SigBad /\ ~ExpBad /\ AudBad /\ ~ActBad
    /\ last.result = "AudienceMismatch"
    /\ last.tok.payload.jti \notin used_jtis[1]

\* The jti a call records when it records one.
Recorded == last.usedBefore \cup {last.tok.payload.jti}

\* C38 as stated: every consumed jti is that of an assertion whose act was
\* returned, and a call that ends in an error adds nothing.
C38_ConsumedOnlyOnSuccess ==
    /\ \A jti \in used_jtis[1] : \E tok \in accepted[1] : tok.payload.jti = jti
    /\ (Called /\ last.result # "OK") => last.usedAfter = last.usedBefore

\* C38, amended: every consumed jti is that of an assertion with the
\* application's signature whose act was returned or found malformed; a
\* call that ends in MalformedClaim adds the assertion's jti, and a call
\* that ends in any other error adds nothing.
C38_ConsumedOncePastReplayCheck ==
    /\ \A jti \in used_jtis[1] :
          \E tok \in SignedTokens :
              /\ tok.payload.jti = jti
              /\ Genuine(tok)
              /\ tok \in accepted[1] \/ ActMalformed(tok.payload)
    /\ (Called /\ last.result = "MalformedClaim") => last.usedAfter = Recorded
    /\ (Called /\ last.result \notin {"OK", "MalformedClaim"})
          => last.usedAfter = last.usedBefore

C38_Witness ==
    /\ Called
    /\ last.result = "MalformedClaim"
    /\ last.tok.payload.jti \notin last.usedBefore
    /\ last.tok.payload.jti \in used_jtis[1]
    /\ last.tok \notin accepted[1]

\* ------------------------------------------------ verify before request
\* The acts receive_and_verify_act_jwt has returned on the instance.
VerifiedActs == {JsonLoads(tok.payload.act) : tok \in accepted[1]}

\* C35: the adapter of an OutOfSessionTokenRequest is invoked only with an
\* act that a successful receive_and_verify_act_jwt on that instance has
\* returned before.
C35_VerifyBeforeRequest ==
    \A call \in provider :
        call.via = "out_of_session" => call.act \in VerifiedActs

\* ------------------------------------------------ concurrent verifications
\* Thread t has finished a call for an assertion the application signed,
\* presented unexpired with its own audience.
ValidCall(t) ==
    /\ thr[t].pc = "done"
    /\ Genuine(thr[t].tok)
    /\ now < thr[t].tok.payload.exp
    /\ thr[t].aud = thr[t].tok.payload.aud

\* C36: two overlapping calls on one instance for valid assertions with
\* different jti values both return, each its own act, under every
\* interleaving, and both jti values are consumed afterwards.
C36_ConcurrentCallsIndependent ==
    \A t1, t2 \in Threads :
        (/\ t1 # t2
         /\ ValidCall(t1) /\ ValidCall(t2)
         /\ thr[t1].tok.payload.jti # thr[t2].tok.payload.jti)
            => /\ thr[t1].result = "OK" /\ thr[t2].result = "OK"
               /\ thr[t1].act = JsonLoads(thr[t1].tok.payload.act)
               /\ thr[t2].act = JsonLoads(thr[t2].tok.payload.act)
               /\ {thr[t1].tok.payload.jti, thr[t2].tok.payload.jti}
                     \subseteq used_jtis[1]

C36_Witness ==
    /\ ValidCall(1) /\ ValidCall(2)
    /\ thr[1].tok.payload.jti # thr[2].tok.payload.jti
    /\ thr[1].act = ActAlice /\ thr[2].act = ActFull
    /\ thr[1].result = "OK" /\ thr[2].result = "OK"

\* ------------------------------------------- configuration and adapter
\* C39: every record get_config returns, for whichever vendor, passes the
\* checks of BaseAdapter.__init__: the required fields are present and
\* token_url starts with https://.
C39_LoaderImpliesAdapter ==
    (ret.op = "get_config" /\ ret.result = "OK")
        => BaseInitResult(ret.config) = "OK"

C39_Witness ==
    /\ ret.op = "get_config"
    /\ ret.result = "OK"
    /\ ret.config.none = {}
    /\ Extras(ret.config) # {}
    /\ BaseInitResult(ret.config) = "OK"

====
